---- MODULE Spec2Model ----
(***************************************************************************)
(* Control plane of the solvyd build system: the workers and builds tables *)
(* of the shared store, the scheduler loop of each API instance, the       *)
(* worker reaper, the HTTP handlers the agents and admins call, and the    *)
(* worker agent's poll / execute / report loop.                            *)
(*                                                                         *)
(* Every SQL statement the code sends through db.GetConn() runs in its own *)
(* implicit transaction (no handler and no loop opens a transaction), so   *)
(* one statement is one atomic step and the statements of one function may *)
(* interleave with the statements of any other.                            *)
(*                                                                         *)
(* Time is counted in clock ticks.  An agent is known by its worker name;  *)
(* the workers table is keyed by the id its INSERT generates.               *)
(* Build ids number the builds in the order of their queued_at.            *)
(* UpdateBuildStatus and GetWorkerBuilds are modelled on a store that has  *)
(* the columns their statements name (builds.updated_at, build_config).    *)
(***************************************************************************)
EXTENDS Integers, Sequences, FiniteSets, TLC

\* ---------------------------------------------------------------- bounds
NumWorkers == 2
NumNames == 1
NumBuilds == 2
SpecBuilds == 1
NumSchedulers == 2
MaxTime == 2
MinutesPerTick == 2
MaxCounter == 3
MaxClientCalls == 1

\* ------------------------------------------------------ program constants
BatchLimit == 10
FetchLimit == 10
DefaultMaxConcurrent == 2
ReapThreshold == 2
SecondsPerMinute == 60

WorkerIds == 1..NumWorkers
Names == 1..NumNames
BuildIds == 1..NumBuilds
SchedIds == 1..NumSchedulers

NULL == -1
NoWorker == 0

\* the scm_commit_sha 'abc123' of the quick-start's INSERT INTO builds
CommitSHA == 1
NoName == 0

\* statuses accepted by UpdateBuildStatus
validStatuses == {"queued", "running", "success", "failure", "cancelled"}
TerminalStatuses == {"success", "failure", "cancelled", "timeout"}

\* the agent's --max-concurrent flag: the agent named 1 runs with 1, the
\* others with the flag's default
MaxConcurrent(a) == IF a = 1 THEN 1 ELSE DefaultMaxConcurrent

\* the name of the sample worker worker-mac-01, a name no agent of the model has
SampleName == NumNames + 1

\* workers.labels by the name of the row: an agent started with
\* --label=type=linux registers its --label values under the key "custom", and
\* the sample worker has the labels of its INSERT
Labels(n) ==
    IF n = SampleName
    THEN {<<"type", "darwin">>, <<"arch", "arm64">>, <<"zone", "us-west-1a">>}
    ELSE {<<"custom", "type=linux">>}

\* jobs.worker_labels of the job a build belongs to: the first build of the
\* model is of a job that targets GPU workers, the others of jobs with the
\* column's default
worker_labels(b) == IF b = 1 THEN {<<"type", "gpu">>} ELSE {}

\* the goroutines of an agent that run checkForBuilds: the poll loop itself
\* and the one sendHeartbeat starts on has_work
Runners == {"poll", "heartbeat"}

Slots == 1..DefaultMaxConcurrent

VARIABLES
    now,            \* the store's CURRENT_TIMESTAMP / the agents' time.Now()
    workers,        \* workers table: worker id -> row ("absent": no row)
    builds,         \* builds table: build id -> row ("absent": no row)
    schedPc,        \* per scheduler instance: position in schedulePendingBuilds
    schedRows,      \* per scheduler instance: the unread rows of its SELECT
    schedWorker,    \* per scheduler instance: workerID of assignBuildToWorker
    schedMatched,   \* per scheduler instance: rows matched by its build UPDATE
    agentWorkerID,  \* per agent: Agent.workerID (NoWorker is uuid.Nil)
    currentBuilds,  \* per agent: Agent.currentBuilds
    tasks,          \* per agent: its executeBuild goroutines
    pollPending,    \* per agent: a "go a.checkForBuilds" started by a heartbeat
    checking,       \* per agent and runner of checkForBuilds: the fetched builds
                    \* it is about to start, the first having passed the loop's test
    clientCalls     \* requests sent so far by clients other than the agents

vars == <<now, workers, builds, schedPc, schedRows, schedWorker, schedMatched,
          agentWorkerID, currentBuilds, tasks, pollPending, checking, clientCalls>>

schedVars == <<schedPc, schedRows, schedWorker, schedMatched>>
agentVars == <<agentWorkerID, currentBuilds, tasks, pollPending, checking>>

AbsentWorker ==
    [status |-> "absent", name |-> NoName, current_builds |-> 0,
     max_concurrent_builds |-> 0, last_heartbeat |-> NULL,
     health_status |-> "healthy", registered_at |-> NULL]

AbsentBuild ==
    [status |-> "absent", worker_id |-> NoWorker, started_at |-> NULL,
     completed_at |-> NULL, duration_seconds |-> NULL, exit_code |-> NULL,
     scm_commit_sha |-> NULL]

IdleTask == [build |-> 0, pc |-> "idle"]

Init ==
    /\ now = 0
    /\ workers = [w \in WorkerIds |-> AbsentWorker]
    /\ builds = [b \in BuildIds |-> AbsentBuild]
    /\ schedPc = [s \in SchedIds |-> "idle"]
    /\ schedRows = [s \in SchedIds |-> <<>>]
    /\ schedWorker = [s \in SchedIds |-> NoWorker]
    /\ schedMatched = [s \in SchedIds |-> FALSE]
    /\ agentWorkerID = [a \in Names |-> NoWorker]
    /\ currentBuilds = [a \in Names |-> 0]
    /\ tasks = [a \in Names |-> [k \in Slots |-> IdleTask]]
    /\ pollPending = [a \in Names |-> FALSE]
    /\ checking = [a \in Names |-> [r \in Runners |-> <<>>]]
    /\ clientCalls = 0

\* the row of the sample worker worker-mac-01 once the sample data is loaded
SampleWorker ==
    [status |-> "online", name |-> SampleName, current_builds |-> 0,
     max_concurrent_builds |-> DefaultMaxConcurrent, last_heartbeat |-> 0,
     health_status |-> "healthy", registered_at |-> 0]

\* the state after construction on a store loaded with the sample worker
SeededInit ==
    /\ now = 0
    /\ workers = [w \in WorkerIds |-> IF w = NumWorkers THEN SampleWorker
                                                        ELSE AbsentWorker]
    /\ builds = [b \in BuildIds |-> AbsentBuild]
    /\ schedPc = [s \in SchedIds |-> "idle"]
    /\ schedRows = [s \in SchedIds |-> <<>>]
    /\ schedWorker = [s \in SchedIds |-> NoWorker]
    /\ schedMatched = [s \in SchedIds |-> FALSE]
    /\ agentWorkerID = [a \in Names |-> NoWorker]
    /\ currentBuilds = [a \in Names |-> 0]
    /\ tasks = [a \in Names |-> [k \in Slots |-> IdleTask]]
    /\ pollPending = [a \in Names |-> FALSE]
    /\ checking = [a \in Names |-> [r \in Runners |-> <<>>]]
    /\ clientCalls = 0

\* workers.status: online, offline, draining, maintenance
WorkerStatuses == {"online", "offline", "draining", "maintenance"}

\* the state after construction on a store loaded with the sample worker,
\* which earlier admin requests and reaper ticks have left in any status
AdminInit ==
    /\ now = 0
    /\ \E st \in WorkerStatuses :
          workers = [w \in WorkerIds |->
                       IF w = NumWorkers THEN [SampleWorker EXCEPT !.status = st]
                                         ELSE AbsentWorker]
    /\ builds = [b \in BuildIds |-> AbsentBuild]
    /\ schedPc = [s \in SchedIds |-> "idle"]
    /\ schedRows = [s \in SchedIds |-> <<>>]
    /\ schedWorker = [s \in SchedIds |-> NoWorker]
    /\ schedMatched = [s \in SchedIds |-> FALSE]
    /\ agentWorkerID = [a \in Names |-> NoWorker]
    /\ currentBuilds = [a \in Names |-> 0]
    /\ tasks = [a \in Names |-> [k \in Slots |-> IdleTask]]
    /\ pollPending = [a \in Names |-> FALSE]
    /\ checking = [a \in Names |-> [r \in Runners |-> <<>>]]
    /\ clientCalls = 0

\* a client other than the agents sends one more request
ClientCall ==
    /\ clientCalls < MaxClientCalls
    /\ clientCalls' = clientCalls + 1

\* ------------------------------------------------------------ the store

\* calculate_build_duration_trigger, BEFORE UPDATE ON builds FOR EACH ROW
calculate_build_duration(row) ==
    IF row.completed_at # NULL /\ row.started_at # NULL
    THEN [row EXCEPT !.duration_seconds =
                        SecondsPerMinute * MinutesPerTick * (row.completed_at - row.started_at)]
    ELSE row

\* the value a nullable request field leaves in a column
SetIfGiven(old, given) == IF given # NULL THEN given ELSE old

Min(S) == CHOOSE x \in S : \A y \in S : x <= y

Max(S) == CHOOSE x \in S : \A y \in S : x >= y

\* the build ids of S in descending queued_at (ORDER BY queued_at DESC)
RECURSIVE OrderedByQueuedAtDesc(_)
OrderedByQueuedAtDesc(S) ==
    IF S = {} THEN <<>> ELSE <<Max(S)>> \o OrderedByQueuedAtDesc(S \ {Max(S)})

\* the build ids of S in ascending queued_at
RECURSIVE OrderedByQueuedAt(_)
OrderedByQueuedAt(S) ==
    IF S = {} THEN <<>> ELSE <<Min(S)>> \o OrderedByQueuedAt(S \ {Min(S)})

Limit(seq, n) == IF Len(seq) <= n THEN seq ELSE SubSeq(seq, 1, n)

\* --------------------------------------------------- handlers/workers.go

\* the rows of the workers table with a name
RowsNamed(n) ==
    {w \in WorkerIds : workers[w].status # "absent" /\ workers[w].name = n}

\* the id DEFAULT uuid_generate_v4() gives an inserted row: an id no row has
\* (NoWorker when the ids of the model are used up)
FreshWorkerId ==
    LET free == {w \in WorkerIds : workers[w].status = "absent"}
    IN IF free = {} THEN NoWorker ELSE Min(free)

\* an INSERT without the ON CONFLICT (name) clause
InsertedWorkerID(n) == FreshWorkerId

\* the id RegisterWorker's statement returns: ON CONFLICT (name) makes it the
\* row that has the name, if there is one, and the inserted row otherwise
RegisterWorkerID(n) ==
    IF RowsNamed(n) # {} THEN CHOOSE w \in RowsNamed(n) : TRUE ELSE FreshWorkerId

\* an upsert whose DO UPDATE SET also sets registered_at
ReinsertedRow(row, n, max) ==
    LET m == IF max <= 0 THEN DefaultMaxConcurrent ELSE max
    IN [(IF row.status = "absent"
         THEN [status |-> "online", name |-> n, current_builds |-> 0,
               max_concurrent_builds |-> m, last_heartbeat |-> NULL,
               health_status |-> "healthy", registered_at |-> now]
         ELSE [row EXCEPT !.status = "online", !.max_concurrent_builds = m,
                          !.last_heartbeat = now])
        EXCEPT !.registered_at = now]

\* RegisterWorker: the row INSERT ... ON CONFLICT (name) DO UPDATE leaves
RegisteredRow(row, n, max) ==
    LET m == IF max <= 0 THEN DefaultMaxConcurrent ELSE max
    IN IF row.status = "absent"
       THEN [status |-> "online", name |-> n, current_builds |-> 0,
             max_concurrent_builds |-> m, last_heartbeat |-> NULL,
             health_status |-> "healthy", registered_at |-> now]
       ELSE [row EXCEPT !.status = "online", !.max_concurrent_builds = m,
                        !.last_heartbeat = now]

\* POST /workers/register from an agent that starts (Agent.Start, Agent.register)
AgentRegister(a) ==
    /\ agentWorkerID[a] = NoWorker
    /\ RegisterWorkerID(a) # NoWorker
    /\ workers' = [workers EXCEPT ![RegisterWorkerID(a)] =
                      RegisteredRow(@, a, MaxConcurrent(a))]
    /\ agentWorkerID' = [agentWorkerID EXCEPT ![a] = RegisterWorkerID(a)]
    /\ UNCHANGED <<now, builds, schedVars, currentBuilds, tasks, pollPending,
                   checking, clientCalls>>

\* the max_concurrent_builds of the registrations other clients send
RegisterMaxes == {-1, 0, 1}

\* a RegisterWorker without the test of the name
RegisterWorkerCodeCreated(n) == 201

\* the HTTP status RegisterWorker answers with
RegisterWorkerCode(n) == IF n = NoName THEN 400 ELSE 201

\* POST /workers/register from any other client, with no name or with a name
\* already registered
RegisterWorker(n, max) ==
    /\ ClientCall
    /\ n = NoName \/ RowsNamed(n) # {}
    /\ n # NoName => RegisterWorkerID(n) # NoWorker
    /\ workers' = IF RegisterWorkerCode(n) = 201
                  THEN [workers EXCEPT ![RegisterWorkerID(n)] = RegisteredRow(@, n, max)]
                  ELSE workers
    /\ UNCHANGED <<now, builds, schedVars, agentVars>>

\* an agent process is stopped and started again: Start registers anew, with
\* none of the goroutines and fields of the process before it
AgentRestart(a) ==
    /\ agentWorkerID[a] # NoWorker
    /\ agentWorkerID' = [agentWorkerID EXCEPT ![a] = NoWorker]
    /\ currentBuilds' = [currentBuilds EXCEPT ![a] = 0]
    /\ tasks' = [tasks EXCEPT ![a] = [k \in Slots |-> IdleTask]]
    /\ pollPending' = [pollPending EXCEPT ![a] = FALSE]
    /\ checking' = [checking EXCEPT ![a] = [r \in Runners |-> <<>>]]
    /\ UNCHANGED <<now, workers, builds, schedVars, clientCalls>>

\* a heartbeat UPDATE that does not set last_heartbeat
StaleHeartbeatRow(row, cur, health) ==
    [row EXCEPT !.current_builds = cur,
                !.health_status = health,
                !.status = IF @ = "draining" THEN "draining" ELSE "online"]

\* a heartbeat UPDATE that sets max_concurrent_builds as a registration does
ResettingHeartbeatRow(row, cur, health) ==
    [row EXCEPT !.last_heartbeat = now,
                !.current_builds = cur,
                !.health_status = health,
                !.max_concurrent_builds = DefaultMaxConcurrent,
                !.status = IF @ = "draining" THEN "draining" ELSE "online"]

\* a heartbeat UPDATE without the CASE on the status
OnlineHeartbeatRow(row, cur, health) ==
    [row EXCEPT !.last_heartbeat = now,
                !.current_builds = cur,
                !.health_status = health,
                !.status = "online"]

\* the row written by Heartbeat's UPDATE ... RETURNING
HeartbeatRow(row, cur, health) ==
    [row EXCEPT !.last_heartbeat = now,
                !.current_builds = cur,
                !.health_status = health,
                !.status = IF @ = "draining" THEN "draining" ELSE "online"]

\* a has_work that does not test the status the UPDATE returned
HasWorkAnyStatus(w, row) ==
    /\ row.current_builds < row.max_concurrent_builds
    /\ \E b \in BuildIds : builds[b].worker_id = w /\ builds[b].status = "queued"

\* Heartbeat's has_work, computed from the RETURNING values and the builds table
HasWork(w, row) ==
    /\ row.current_builds < row.max_concurrent_builds
    /\ row.status = "online"
    /\ \E b \in BuildIds : builds[b].worker_id = w /\ builds[b].status = "queued"

\* Agent.sendHeartbeat with WorkerHandler.Heartbeat on the server side
Heartbeat(a) ==
    /\ agentWorkerID[a] # NoWorker
    /\ LET w == agentWorkerID[a]
           row == HeartbeatRow(workers[w], currentBuilds[a], "healthy")
       IN /\ workers' = [workers EXCEPT ![w] = row]
          /\ pollPending' = [pollPending EXCEPT ![a] = @ \/ HasWork(w, row)]
    /\ UNCHANGED <<now, builds, schedVars, agentWorkerID, currentBuilds, tasks,
                   checking, clientCalls>>

\* a DrainWorker that does not look at the rows its UPDATE matched
DrainWorkerCodeOK(w) == 200

\* the HTTP status DrainWorker answers with
DrainWorkerCode(w) == IF workers[w].status = "absent" THEN 404 ELSE 200

\* DrainWorker: UPDATE workers SET status = 'draining' WHERE id = $1
DrainWorker(w) ==
    /\ ClientCall
    /\ workers' = IF DrainWorkerCode(w) = 200
                  THEN [workers EXCEPT ![w].status = "draining"]
                  ELSE workers
    /\ UNCHANGED <<now, builds, schedVars, agentVars>>

\* UpdateWorker with max_concurrent_builds and/or status given (NULL, "": not given)
UpdateWorker(w, max, status) ==
    /\ ClientCall
    /\ max # NULL \/ status # ""
    /\ workers[w].status # "absent"
    /\ workers' = [workers EXCEPT
                     ![w].max_concurrent_builds = SetIfGiven(@, max),
                     ![w].status = IF status # "" THEN status ELSE @]
    /\ UNCHANGED <<now, builds, schedVars, agentVars>>

\* ---------------------------------------------------- worker/manager.go

\* a WHERE clause with <= in the place of <
StaleOrAtThreshold(row) ==
    /\ row.status = "online"
    /\ row.last_heartbeat # NULL
    /\ row.last_heartbeat * MinutesPerTick <= now * MinutesPerTick - ReapThreshold

\* the WHERE clause of checkWorkerHealth's UPDATE
Stale(row) ==
    /\ row.status = "online"
    /\ row.last_heartbeat # NULL
    /\ row.last_heartbeat * MinutesPerTick < now * MinutesPerTick - ReapThreshold

\* a reaper UPDATE that also clears the counter of the workers it marks
checkWorkerHealthZeroing ==
    /\ \E w \in WorkerIds : Stale(workers[w])
    /\ workers' = [w \in WorkerIds |->
                     IF Stale(workers[w])
                     THEN [workers[w] EXCEPT !.status = "offline",
                                             !.health_status = "unhealthy",
                                             !.current_builds = 0]
                     ELSE workers[w]]
    /\ UNCHANGED <<now, builds, schedVars, agentVars, clientCalls>>

\* Manager.checkWorkerHealth, a tick that finds stale workers
checkWorkerHealth ==
    /\ \E w \in WorkerIds : Stale(workers[w])
    /\ workers' = [w \in WorkerIds |->
                     IF Stale(workers[w])
                     THEN [workers[w] EXCEPT !.status = "offline",
                                             !.health_status = "unhealthy"]
                     ELSE workers[w]]
    /\ UNCHANGED <<now, builds, schedVars, agentVars, clientCalls>>

\* ------------------------------------------- handlers/jobs.go, builds.go

\* the id of the build row inserted next
NextBuild(b) == /\ builds[b].status = "absent"
                /\ \A c \in BuildIds : c < b => builds[c].status # "absent"

\* TriggerJob: INSERT INTO builds (..., status, ...) VALUES (..., 'queued', ...)
TriggerJob(b) ==
    /\ NextBuild(b)
    /\ builds' = [builds EXCEPT ![b] = [AbsentBuild EXCEPT !.status = "queued"]]
    /\ UNCHANGED <<now, workers, schedVars, agentVars, clientCalls>>

\* the quick-start's INSERT INTO builds of a queued build with worker_id given
InsertAssignedBuild(b, w) ==
    /\ NextBuild(b)
    /\ workers[w].status # "absent"
    /\ builds' = [builds EXCEPT ![b] = [AbsentBuild EXCEPT !.status = "queued",
                                                           !.worker_id = w,
                                                           !.scm_commit_sha = CommitSHA]]
    /\ UNCHANGED <<now, workers, schedVars, agentVars, clientCalls>>

\* the row written by UPDATE builds SET status = 'cancelled', completed_at = now
CancelledRow(row) ==
    calculate_build_duration([row EXCEPT !.status = "cancelled", !.completed_at = now])

\* the HTTP status CancelBuild answers with
CancelBuildCode(b) == IF builds[b].status \in {"queued", "running"} THEN 200 ELSE 404

\* CancelBuild: UPDATE builds ... WHERE id = $1 AND status IN ('queued', 'running')
CancelBuild(b) ==
    /\ ClientCall
    /\ builds' = IF CancelBuildCode(b) = 200
                 THEN [builds EXCEPT ![b] = CancelledRow(@)]
                 ELSE builds
    /\ UNCHANGED <<now, workers, schedVars, agentVars>>

\* GetWorkerBuilds' rows.Scan of a row into models.Build: a NULL
\* scm_commit_sha does not convert to the string field, and the row is skipped
ScanSucceeds(b) == builds[b].scm_commit_sha # NULL

\* GetWorkerBuilds: SELECT ... WHERE b.worker_id = $1 AND b.status = 'queued'
\*                  ORDER BY b.queued_at ASC LIMIT 10,
\* and the rows of it that rows.Scan reads
GetWorkerBuilds(w) ==
    SelectSeq(Limit(OrderedByQueuedAt({b \in BuildIds : /\ builds[b].worker_id = w
                                                        /\ builds[b].status = "queued"}),
                    FetchLimit),
              ScanSucceeds)

\* a request body of UpdateBuildStatus; NULL is an omitted field
Request(status, started, completed, exit, duration) ==
    [status |-> status, started_at |-> started, completed_at |-> completed,
     exit_code |-> exit, duration_seconds |-> duration]

\* the row written by UpdateBuildStatus's UPDATE builds SET ... WHERE id = $n
UpdatedRow(row, req) ==
    calculate_build_duration(
        [row EXCEPT !.status = req.status,
                    !.started_at = SetIfGiven(@, req.started_at),
                    !.completed_at = SetIfGiven(@, req.completed_at),
                    !.exit_code = SetIfGiven(@, req.exit_code),
                    !.duration_seconds = SetIfGiven(@, req.duration_seconds)])

\* the HTTP status UpdateBuildStatus answers with
UpdateBuildStatusCode(b, req) ==
    IF req.status \notin validStatuses THEN 400
    ELSE IF builds[b].status = "absent" THEN 404
    ELSE 200

\* UpdateBuildStatus: the effect on the store
UpdateBuildStatus(b, req) ==
    builds' = IF UpdateBuildStatusCode(b, req) = 200
              THEN [builds EXCEPT ![b] = UpdatedRow(@, req)]
              ELSE builds

\* the request bodies a client other than the agents sends: the final reports
\* of an agent, three bare statuses, and a status the handler does not accept
ClientRequests ==
    {Request("running", NULL, NULL, NULL, NULL),
     Request("success", NULL, now, NULL, 0),
     Request("failure", NULL, now, 1, 0),
     Request("queued", NULL, NULL, NULL, NULL),
     Request("success", NULL, NULL, NULL, NULL),
     Request("timeout", NULL, now, NULL, NULL)}

\* PUT /builds/{id}/status from a client other than the agents
ReportStatus(b, req) ==
    /\ ClientCall
    /\ UpdateBuildStatus(b, req)
    /\ UNCHANGED <<now, workers, schedVars, agentVars>>

\* ------------------------------------------------ scheduler/scheduler.go

\* a loop over the rows that returns at the first error
AbortBatch(s) == "idle"

\* where a scheduler instance goes once it is done with the first of its rows
AfterRow(s) == IF Len(schedRows[s]) > 1 THEN "select" ELSE "idle"

\* schedulePendingBuilds, the SELECT of up to 10 queued builds
schedulePendingBuilds(s) ==
    /\ schedPc[s] = "idle"
    /\ \E b \in BuildIds : builds[b].status = "queued"
    /\ schedRows' = [schedRows EXCEPT ![s] =
          Limit(OrderedByQueuedAt({b \in BuildIds : builds[b].status = "queued"}),
                BatchLimit)]
    /\ schedPc' = [schedPc EXCEPT ![s] = "select"]
    /\ UNCHANGED <<now, workers, builds, schedWorker, schedMatched, agentVars,
                   clientCalls>>

\* the workers the SELECT ... FOR UPDATE SKIP LOCKED of assignBuildToWorker can
\* return: no transaction is open, so no row is locked when the statement runs
AvailableWorkers ==
    LET eligible == {w \in WorkerIds : /\ workers[w].status = "online"
                                       /\ workers[w].current_builds
                                            < workers[w].max_concurrent_builds}
    IN {w \in eligible :
          \A v \in eligible : workers[w].current_builds <= workers[v].current_builds}

\* assignBuildToWorker, the SELECT of a worker
selectWorker(s) ==
    /\ schedPc[s] = "select"
    /\ IF AvailableWorkers = {}
       THEN /\ schedRows' = [schedRows EXCEPT ![s] = Tail(@)]
            /\ schedPc' = [schedPc EXCEPT ![s] = AfterRow(s)]
            /\ UNCHANGED schedWorker
       ELSE /\ \E w \in AvailableWorkers :
                  schedWorker' = [schedWorker EXCEPT ![s] = w]
            /\ schedPc' = [schedPc EXCEPT ![s] = "update"]
            /\ UNCHANGED schedRows
    /\ UNCHANGED <<now, workers, builds, schedMatched, agentVars, clientCalls>>

\* the row written by a build UPDATE with WHERE id = $2 alone
UnconditionalAssignedRow(row, w) ==
    calculate_build_duration([row EXCEPT !.status = "running",
                                         !.worker_id = w,
                                         !.started_at = now])

\* the row written by UPDATE builds SET status = 'running', worker_id = $1,
\* started_at = CURRENT_TIMESTAMP WHERE id = $2 AND status = 'queued'
AssignedRow(row, w) ==
    IF row.status = "queued"
    THEN calculate_build_duration([row EXCEPT !.status = "running",
                                              !.worker_id = w,
                                              !.started_at = now])
    ELSE row

\* assignBuildToWorker, the UPDATE of the build
updateBuild(s) ==
    /\ schedPc[s] = "update"
    /\ LET b == Head(schedRows[s])
       IN /\ builds' = [builds EXCEPT ![b] = AssignedRow(@, schedWorker[s])]
          /\ schedMatched' = [schedMatched EXCEPT ![s] = (builds[b].status = "queued")]
    /\ schedPc' = [schedPc EXCEPT ![s] = "increment"]
    /\ UNCHANGED <<now, workers, schedRows, schedWorker, agentVars, clientCalls>>

\* the row written by UPDATE workers SET current_builds = current_builds + 1
IncrementedRow(row) == [row EXCEPT !.current_builds = @ + 1]

\* assignBuildToWorker, the UPDATE of the worker, and the return to the loop
updateWorker(s) ==
    /\ schedPc[s] = "increment"
    /\ workers[schedWorker[s]].current_builds < MaxCounter
    /\ workers' = [workers EXCEPT ![schedWorker[s]] = IncrementedRow(@)]
    /\ schedRows' = [schedRows EXCEPT ![s] = Tail(@)]
    /\ schedPc' = [schedPc EXCEPT ![s] = AfterRow(s)]
    /\ schedWorker' = [schedWorker EXCEPT ![s] = NoWorker]
    /\ schedMatched' = [schedMatched EXCEPT ![s] = FALSE]
    /\ UNCHANGED <<now, builds, agentVars, clientCalls>>

\* assignBuildToWorker when the worker SELECT returns an error other than
\* sql.ErrNoRows: the error is returned, and the loop goes on to its next row
selectWorkerFails(s) ==
    /\ schedPc[s] = "select"
    /\ schedRows' = [schedRows EXCEPT ![s] = Tail(@)]
    /\ schedPc' = [schedPc EXCEPT ![s] = AfterRow(s)]
    /\ UNCHANGED <<now, workers, builds, schedWorker, schedMatched, agentVars,
                   clientCalls>>

\* assignBuildToWorker when the ExecContext of the build UPDATE returns an
\* error (store failure, cancelled context): the statement has no effect,
\* the error is returned, and the loop goes on to its next row
updateBuildFails(s) ==
    /\ schedPc[s] = "update"
    /\ schedRows' = [schedRows EXCEPT ![s] = Tail(@)]
    /\ schedPc' = [schedPc EXCEPT ![s] = AfterRow(s)]
    /\ schedWorker' = [schedWorker EXCEPT ![s] = NoWorker]
    /\ UNCHANGED <<now, workers, builds, schedMatched, agentVars, clientCalls>>

\* assignBuildToWorker when the ExecContext of the worker UPDATE returns an
\* error: the statement has no effect, the error is logged, and the function
\* returns as after an assignment
updateWorkerFails(s) ==
    /\ schedPc[s] = "increment"
    /\ schedRows' = [schedRows EXCEPT ![s] = Tail(@)]
    /\ schedPc' = [schedPc EXCEPT ![s] = AfterRow(s)]
    /\ schedWorker' = [schedWorker EXCEPT ![s] = NoWorker]
    /\ schedMatched' = [schedMatched EXCEPT ![s] = FALSE]
    /\ UNCHANGED <<now, workers, builds, agentVars, clientCalls>>

\* ---------------------------------------------- worker-agent/agent.go

FreeSlots(ts) == {k \in Slots : ts[k].pc = "idle"}

\* the test at the head of checkForBuilds' loop over the builds it fetched:
\* the builds still to be started, none once a.currentBuilds >= MaxConcurrent
LoopCheck(fetched, cur, max) == IF cur >= max THEN <<>> ELSE fetched

\* Agent.pollLoop, one tick that finds builds: the test of a.currentBuilds,
\* checkForBuilds' GET of BuildHandler.GetWorkerBuilds, and the loop's first test
pollLoop(a) ==
    /\ agentWorkerID[a] # NoWorker
    /\ checking[a]["poll"] = <<>>
    /\ currentBuilds[a] < MaxConcurrent(a)
    /\ GetWorkerBuilds(agentWorkerID[a]) # <<>>
    /\ checking' = [checking EXCEPT ![a]["poll"] =
          LoopCheck(GetWorkerBuilds(agentWorkerID[a]), currentBuilds[a],
                    MaxConcurrent(a))]
    /\ UNCHANGED <<now, workers, builds, schedVars, agentWorkerID, currentBuilds,
                   tasks, pollPending, clientCalls>>

\* the checkForBuilds goroutine that sendHeartbeat starts on has_work: its GET
\* and the loop's first test
heartbeatPoll(a) ==
    /\ pollPending[a]
    /\ checking[a]["heartbeat"] = <<>>
    /\ pollPending' = [pollPending EXCEPT ![a] = FALSE]
    /\ checking' = [checking EXCEPT ![a]["heartbeat"] =
          LoopCheck(GetWorkerBuilds(agentWorkerID[a]), currentBuilds[a],
                    MaxConcurrent(a))]
    /\ UNCHANGED <<now, workers, builds, schedVars, agentWorkerID, currentBuilds,
                   tasks, clientCalls>>

\* checkForBuilds' loop body, a.currentBuilds++ and go a.executeBuild, and the
\* loop's test for the build after it
checkForBuilds(a, r) ==
    /\ checking[a][r] # <<>>
    /\ FreeSlots(tasks[a]) # {}
    /\ tasks' = [tasks EXCEPT ![a][Min(FreeSlots(tasks[a]))] =
                    [build |-> Head(checking[a][r]), pc |-> "start"]]
    /\ currentBuilds' = [currentBuilds EXCEPT ![a] = @ + 1]
    /\ checking' = [checking EXCEPT ![a][r] =
          LoopCheck(Tail(checking[a][r]), currentBuilds[a] + 1, MaxConcurrent(a))]
    /\ UNCHANGED <<now, workers, builds, schedVars, agentWorkerID, pollPending,
                   clientCalls>>

\* checkForBuilds' loop body run by both runners at once: a.currentBuilds is a
\* plain int and the two a.currentBuilds++ are unsynchronised, so both can
\* read the same value and write it plus one; each starts its executeBuild
checkForBuildsRacing(a) ==
    /\ checking[a]["poll"] # <<>>
    /\ checking[a]["heartbeat"] # <<>>
    /\ Cardinality(FreeSlots(tasks[a])) >= 2
    /\ LET k1 == Min(FreeSlots(tasks[a]))
           k2 == Min(FreeSlots(tasks[a]) \ {k1})
       IN tasks' = [tasks EXCEPT
                       ![a][k1] = [build |-> Head(checking[a]["poll"]), pc |-> "start"],
                       ![a][k2] = [build |-> Head(checking[a]["heartbeat"]),
                                   pc |-> "start"]]
    /\ currentBuilds' = [currentBuilds EXCEPT ![a] = @ + 1]
    /\ checking' = [checking EXCEPT
          ![a]["poll"] = LoopCheck(Tail(@), currentBuilds[a] + 1, MaxConcurrent(a)),
          ![a]["heartbeat"] = LoopCheck(Tail(@), currentBuilds[a] + 1, MaxConcurrent(a))]
    /\ UNCHANGED <<now, workers, builds, schedVars, agentWorkerID, pollPending,
                   clientCalls>>

\* Agent.executeBuild, the report of "running"
reportRunning(a, k) ==
    /\ tasks[a][k].pc = "start"
    /\ UpdateBuildStatus(tasks[a][k].build, Request("running", now, NULL, NULL, NULL))
    /\ tasks' = [tasks EXCEPT ![a][k].pc = "execute"]
    /\ UNCHANGED <<now, workers, schedVars, agentWorkerID, currentBuilds,
                   pollPending, checking, clientCalls>>

\* the Duration of an executor's BuildResult, in seconds
Durations == {12}

\* the final report of executeBuild for a BuildResult
FinalRequest(ok, d) ==
    IF ok THEN Request("success", NULL, now, NULL, d)
          ELSE Request("failure", NULL, now, 1, d)

\* Agent.executeBuild, from executor.Execute's return to the deferred decrement
reportResult(a, k, ok, d) ==
    /\ tasks[a][k].pc = "execute"
    /\ UpdateBuildStatus(tasks[a][k].build, FinalRequest(ok, d))
    /\ tasks' = [tasks EXCEPT ![a][k] = IdleTask]
    /\ currentBuilds' = [currentBuilds EXCEPT ![a] = @ - 1]
    /\ UNCHANGED <<now, workers, schedVars, agentWorkerID, pollPending, checking,
                   clientCalls>>

\* Agent.executeBuild when updateBuildStatus("running") returns an error from
\* a.client.Do: the request did not reach the handler; the error is logged and
\* the build is executed
reportRunningLost(a, k) ==
    /\ tasks[a][k].pc = "start"
    /\ tasks' = [tasks EXCEPT ![a][k].pc = "execute"]
    /\ UNCHANGED <<now, workers, builds, schedVars, agentWorkerID, currentBuilds,
                   pollPending, checking, clientCalls>>

\* Agent.executeBuild when the final updateBuildStatus returns an error from
\* a.client.Do: the error is logged and executeBuild returns
reportResultLost(a, k) ==
    /\ tasks[a][k].pc = "execute"
    /\ tasks' = [tasks EXCEPT ![a][k] = IdleTask]
    /\ currentBuilds' = [currentBuilds EXCEPT ![a] = @ - 1]
    /\ UNCHANGED <<now, workers, builds, schedVars, agentWorkerID, pollPending,
                   checking, clientCalls>>

\* ------------------------------------------------------------------ time

AdvanceTime ==
    /\ now < MaxTime
    /\ now' = now + 1
    /\ UNCHANGED <<workers, builds, schedVars, agentVars, clientCalls>>

\* --------------------------------------------------------- specification

\* the system with all its actors and SpecBuilds builds
Next ==
    \/ \E a \in Names : AgentRegister(a)
    \/ \E n \in Names, m \in {0, 1} : RegisterWorker(n, m)
    \/ \E a \in Names : Heartbeat(a)
    \/ \E w \in WorkerIds : DrainWorker(w)
    \/ \E w \in WorkerIds, m \in {NULL, 1}, st \in {"", "maintenance"} :
          UpdateWorker(w, m, st)
    \/ checkWorkerHealth
    \/ \E b \in 1..SpecBuilds : TriggerJob(b)
    \/ \E b \in 1..SpecBuilds, w \in WorkerIds : InsertAssignedBuild(b, w)
    \/ \E b \in BuildIds : CancelBuild(b)
    \/ \E b \in BuildIds : \E req \in ClientRequests : ReportStatus(b, req)
    \/ \E s \in SchedIds : schedulePendingBuilds(s)
    \/ \E s \in SchedIds : selectWorker(s)
    \/ \E s \in SchedIds : updateBuild(s)
    \/ \E s \in SchedIds : updateWorker(s)
    \/ \E a \in Names : pollLoop(a)
    \/ \E a \in Names : heartbeatPoll(a)
    \/ \E a \in Names, r \in Runners : checkForBuilds(a, r)
    \/ \E a \in Names, k \in Slots : reportRunning(a, k)
    \/ \E a \in Names, k \in Slots, ok \in BOOLEAN, d \in Durations :
          reportResult(a, k, ok, d)
    \/ AdvanceTime

Spec == Init /\ [][Next]_vars

\* the scheduling the code guarantees: the scheduler loop of every instance
\* runs on a ticker, every agent registers when it starts and then runs its
\* heartbeat and poll loops on tickers, and every started executeBuild
\* goroutine runs to its end
Fairness ==
    /\ \A s \in SchedIds : /\ WF_vars(schedulePendingBuilds(s))
                           /\ WF_vars(selectWorker(s))
                           /\ WF_vars(updateBuild(s))
                           /\ WF_vars(updateWorker(s))
    /\ \A a \in Names : /\ WF_vars(AgentRegister(a))
                        /\ WF_vars(Heartbeat(a))
                        /\ WF_vars(pollLoop(a))
                        /\ WF_vars(heartbeatPoll(a))
    /\ \A a \in Names, r \in Runners : WF_vars(checkForBuilds(a, r))
    /\ \A a \in Names, k \in Slots :
          /\ WF_vars(reportRunning(a, k))
          /\ WF_vars(\E ok \in BOOLEAN, d \in Durations : reportResult(a, k, ok, d))

\* the system with no client other than the agents but the one that creates
\* builds, and with every worker heartbeating in time
HappyNext ==
    \/ \E a \in Names : AgentRegister(a)
    \/ \E a \in Names : Heartbeat(a)
    \/ \E b \in 1..SpecBuilds : TriggerJob(b)
    \/ \E b \in 1..SpecBuilds, w \in WorkerIds : InsertAssignedBuild(b, w)
    \/ \E s \in SchedIds : schedulePendingBuilds(s)
    \/ \E s \in SchedIds : selectWorker(s)
    \/ \E s \in SchedIds : updateBuild(s)
    \/ \E s \in SchedIds : updateWorker(s)
    \/ \E a \in Names : pollLoop(a)
    \/ \E a \in Names : heartbeatPoll(a)
    \/ \E a \in Names, r \in Runners : checkForBuilds(a, r)
    \/ \E a \in Names, k \in Slots : reportRunning(a, k)
    \/ \E a \in Names, k \in Slots, ok \in BOOLEAN, d \in Durations :
          reportResult(a, k, ok, d)
    \/ AdvanceTime

HappySpec == Init /\ [][HappyNext]_vars /\ Fairness

\* one API instance and one agent with every build of the model: the scheduler
\* loop of the instance, the agent's registration and heartbeats, the client
\* that triggers builds, and the clock
TwoBuildNext ==
    \/ \E a \in Names : AgentRegister(a)
    \/ \E a \in Names : Heartbeat(a)
    \/ \E b \in BuildIds : TriggerJob(b)
    \/ schedulePendingBuilds(1)
    \/ selectWorker(1)
    \/ updateBuild(1)
    \/ updateWorker(1)
    \/ AdvanceTime

TwoBuildSpec == Init /\ [][TwoBuildNext]_vars

\* the background loops of an API instance run on tickers, and time passes;
\* an agent may stop heartbeating for good
BackgroundFairness ==
    /\ \A s \in SchedIds : /\ WF_vars(schedulePendingBuilds(s))
                           /\ WF_vars(selectWorker(s))
                           /\ WF_vars(updateBuild(s))
                           /\ WF_vars(updateWorker(s))
    /\ WF_vars(checkWorkerHealth)
    /\ WF_vars(AdvanceTime)

\* the system with no client other than the agents but the one that creates
\* builds, and with the reaper
ReapNext ==
    \/ \E a \in Names : AgentRegister(a)
    \/ \E a \in Names : Heartbeat(a)
    \/ checkWorkerHealth
    \/ \E b \in 1..SpecBuilds : TriggerJob(b)
    \/ \E b \in 1..SpecBuilds, w \in WorkerIds : InsertAssignedBuild(b, w)
    \/ \E s \in SchedIds : schedulePendingBuilds(s)
    \/ \E s \in SchedIds : selectWorker(s)
    \/ \E s \in SchedIds : updateBuild(s)
    \/ \E s \in SchedIds : updateWorker(s)
    \/ \E a \in Names : pollLoop(a)
    \/ \E a \in Names : heartbeatPoll(a)
    \/ \E a \in Names, r \in Runners : checkForBuilds(a, r)
    \/ \E a \in Names, k \in Slots : reportRunning(a, k)
    \/ \E a \in Names, k \in Slots, ok \in BOOLEAN, d \in Durations :
          reportResult(a, k, ok, d)
    \/ AdvanceTime

ReapSpec == Init /\ [][ReapNext]_vars /\ BackgroundFairness

\* the system of HappySpec on a network that can lose an agent's status report
LossyNext ==
    \/ HappyNext
    \/ \E a \in Names, k \in Slots : reportRunningLost(a, k)
    \/ \E a \in Names, k \in Slots : reportResultLost(a, k)

LossySpec == Init /\ [][LossyNext]_vars /\ Fairness

\* one API instance and one agent on a store loaded with the sample worker:
\* the scheduler loop and the reaper of the instance, the agent's registration
\* and heartbeats, the clients that create builds, and the clock
SeededNext ==
    \/ \E a \in Names : AgentRegister(a)
    \/ \E a \in Names : Heartbeat(a)
    \/ checkWorkerHealth
    \/ \E b \in BuildIds : TriggerJob(b)
    \/ \E b \in BuildIds, w \in WorkerIds : InsertAssignedBuild(b, w)
    \/ schedulePendingBuilds(1)
    \/ selectWorker(1)
    \/ updateBuild(1)
    \/ updateWorker(1)
    \/ AdvanceTime

SeededSpec == SeededInit /\ [][SeededNext]_vars

\* the system of ReapSpec with an admin who drains workers
DrainNext ==
    \/ ReapNext
    \/ \E w \in WorkerIds : DrainWorker(w)

DrainSpec == Init /\ [][DrainNext]_vars /\ BackgroundFairness

\* the system of TwoBuildSpec on a store whose statements can fail
FailingNext ==
    \/ TwoBuildNext
    \/ selectWorkerFails(1)
    \/ updateBuildFails(1)
    \/ updateWorkerFails(1)

FailingSpec == Init /\ [][FailingNext]_vars

\* the system of HappySpec with the outcome of the agent's unsynchronised
\* increments in which one of them is lost
RacyNext ==
    \/ HappyNext
    \/ \E a \in Names : checkForBuildsRacing(a)

RacySpec == Init /\ [][RacyNext]_vars

\* the workers table under its handlers: an agent that registers, heartbeats
\* and restarts, the admin requests, registrations by other clients (with and
\* without a name), the reaper, and the clock
RegisterNext ==
    \/ \E a \in Names : AgentRegister(a)
    \/ \E a \in Names : AgentRestart(a)
    \/ \E a \in Names : Heartbeat(a)
    \/ \E n \in Names \cup {NoName}, m \in RegisterMaxes : RegisterWorker(n, m)
    \/ \E w \in WorkerIds : DrainWorker(w)
    \/ \E w \in WorkerIds, m \in {NULL, DefaultMaxConcurrent},
          st \in {"", "maintenance"} : UpdateWorker(w, m, st)
    \/ checkWorkerHealth
    \/ AdvanceTime

RegisterSpec == Init /\ [][RegisterNext]_vars

\* the same on a store that holds the sample worker in any status
AdminSpec == AdminInit /\ [][RegisterNext]_vars

\* ------------------------------------------------------------ properties

\* the step taken sends the request body req for build b to UpdateBuildStatus
ReportStep(b, req) ==
    \/ req \in ClientRequests /\ ReportStatus(b, req)
    \/ \E a \in Names, k \in Slots :
          /\ tasks[a][k].build = b
          /\ \/ req = Request("running", now, NULL, NULL, NULL) /\ reportRunning(a, k)
             \/ \E ok \in BOOLEAN, d \in Durations :
                   req = FinalRequest(ok, d) /\ reportResult(a, k, ok, d)

\* the request bodies of the model
RequestBodies ==
    ClientRequests \cup {FinalRequest(ok, d) : ok \in BOOLEAN, d \in Durations}

\* the edges of the build state machine
LegalEdges ==
    {<<"queued", "running">>, <<"queued", "cancelled">>, <<"running", "success">>,
     <<"running", "failure">>, <<"running", "cancelled">>, <<"running", "timeout">>}

RunningOn(w) == {b \in BuildIds : builds[b].status = "running" /\ builds[b].worker_id = w}

\* C1: a scheduler attempt whose conditional build update matched 0 rows leaves
\* every worker's current_builds as it was, so that the attempts of all
\* instances on one queued build add exactly 1 to the workers' counters.
C1_LostRaceLeavesCounters ==
    [][\A s \in SchedIds :
        (schedPc[s] = "increment" /\ ~schedMatched[s] /\ schedPc'[s] # "increment")
        => \A w \in WorkerIds :
              workers'[w].current_builds = workers[w].current_builds]_vars

\* C2: every worker row has 0 <= current_builds <= max_concurrent_builds.
C2_CounterWithinCapacity ==
    \A w \in WorkerIds :
        workers[w].status # "absent"
        => /\ 0 <= workers[w].current_builds
           /\ workers[w].current_builds <= workers[w].max_concurrent_builds

\* C3: every worker's current_builds is the number of running builds with its
\* worker_id (and so the counters sum to the number of running builds); stated
\* for the states in which no scheduler instance is inside assignBuildToWorker.
C3_CounterEqualsRunning ==
    (\A s \in SchedIds : schedPc[s] = "idle")
    => \A w \in WorkerIds : workers[w].current_builds = Cardinality(RunningOn(w))

\* C4: every change of a build's status is an edge of the state machine.
C4_OnlyLegalEdges ==
    [][\A b \in BuildIds :
        (builds[b].status # "absent" /\ builds'[b].status # builds[b].status)
        => <<builds[b].status, builds'[b].status>> \in LegalEdges]_vars

\* C5: with a worker that heartbeats and polls, every build created by Trigger
\* (queued, no worker_id) eventually reaches success or failure.
C5_TriggeredBuildCompletes ==
    \A b \in BuildIds :
        (builds[b].status = "queued" /\ builds[b].worker_id = NoWorker)
        ~> (builds[b].status \in {"success", "failure"})

\* C6: of two reports that ask for conflicting transitions out of running, the
\* one that arrives after the other was applied (the build has started and is
\* already success or failure) is answered with CONFLICT (409) and changes no
\* field of the build.
C6_ConflictingReportRejected ==
    [][\A b \in BuildIds, req \in RequestBodies :
        (/\ ReportStep(b, req)
         /\ req.status \in {"success", "failure"}
         /\ builds[b].started_at # NULL
         /\ builds[b].status \in {"success", "failure"}
         /\ builds[b].status # req.status)
        => /\ UpdateBuildStatusCode(b, req) = 409
           /\ builds'[b] = builds[b]]_vars

\* C7: a report of running for a build that is already running is answered
\* with CONFLICT (409) and leaves the build, started_at included, unchanged.
C7_SecondRunningRejected ==
    [][\A b \in BuildIds, req \in RequestBodies :
        (/\ ReportStep(b, req)
         /\ req.status = "running"
         /\ builds[b].status = "running")
        => /\ UpdateBuildStatusCode(b, req) = 409
           /\ builds'[b] = builds[b]]_vars

\* C8: a report of success or failure for a queued build is answered with
\* CONFLICT (409) and leaves the build unchanged.
C8_TerminalOnQueuedRejected ==
    [][\A b \in BuildIds, req \in RequestBodies :
        (/\ ReportStep(b, req)
         /\ req.status \in {"success", "failure"}
         /\ builds[b].status = "queued")
        => /\ UpdateBuildStatusCode(b, req) = 409
           /\ builds'[b] = builds[b]]_vars

\* C9: the final report of an agent for a build that was cancelled while the
\* agent executed it does not replace cancelled.
C9_CancelledSurvivesReport ==
    [][\A a \in Names, k \in Slots :
        (/\ tasks[a][k].pc = "execute"
         /\ builds[tasks[a][k].build].status = "cancelled"
         /\ \E ok \in BOOLEAN, d \in Durations : reportResult(a, k, ok, d))
        => builds'[tasks[a][k].build].status = "cancelled"]_vars

\* C10: every step that takes a build from running to a terminal status sets
\* completed_at and takes one off the current_builds of the build's worker;
\* stated for the steps before which that worker's counter is positive.
C10_TerminalReleasesWorker ==
    [][\A b \in BuildIds :
        (/\ builds[b].status = "running"
         /\ builds'[b].status \in TerminalStatuses
         /\ builds[b].worker_id # NoWorker
         /\ workers[builds[b].worker_id].current_builds > 0)
        => /\ builds'[b].completed_at # NULL
           /\ workers'[builds[b].worker_id].current_builds
                 = workers[builds[b].worker_id].current_builds - 1]_vars

\* C11: there is at most one worker row per name, and every Register with a
\* name leaves exactly the row of that name and returns its id, the id the
\* first Register with that name (the agent's) returned.
C11_OneRowPerName ==
    [][\A n \in Names :
        /\ Cardinality(RowsNamed(n)') <= 1
        /\ (AgentRegister(n) \/ \E m \in {0, 1} : RegisterWorker(n, m))
           => /\ RowsNamed(n)' = {RegisterWorkerID(n)}
              /\ agentWorkerID[n] # NoWorker => RegisterWorkerID(n) = agentWorkerID[n]]_vars

\* a worker registered by its agent and registered again by another client
C11_RegisteredAgain ==
    \E w \in WorkerIds :
        /\ agentWorkerID[1] = w
        /\ workers[w].name = 1
        /\ workers[w].max_concurrent_builds = DefaultMaxConcurrent
        /\ clientCalls = 1

\* minutes since the last heartbeat of a row that has one
HeartbeatAge(row) == (now - row.last_heartbeat) * MinutesPerTick

\* C12: a reaper tick sets offline and unhealthy on every online worker whose
\* last heartbeat is more than the threshold old and changes no other worker,
\* and a Heartbeat from an offline worker sets its status back to online.
C12_ReaperMarksStale ==
    [][/\ checkWorkerHealth
          => \A w \in WorkerIds :
                workers'[w] =
                   IF /\ workers[w].status = "online"
                      /\ workers[w].last_heartbeat # NULL
                      /\ HeartbeatAge(workers[w]) > ReapThreshold
                   THEN [workers[w] EXCEPT !.status = "offline",
                                           !.health_status = "unhealthy"]
                   ELSE workers[w]
       /\ \A a \in Names :
             (Heartbeat(a) /\ workers[agentWorkerID[a]].status = "offline")
             => workers'[agentWorkerID[a]].status = "online"]_vars

\* a worker the reaper has marked
C12_Reaped ==
    \E w \in WorkerIds :
        /\ workers[w].status = "offline"
        /\ workers[w].health_status = "unhealthy"
        /\ HeartbeatAge(workers[w]) > ReapThreshold

\* the status a reaper tick that commits now leaves worker w with
ReapedStatus(w) == IF Stale(workers[w]) THEN "offline" ELSE workers[w].status

\* C13 as stated: when the reaper tick commits after the Heartbeat of a worker
\* whose last heartbeat has crossed the threshold, the worker ends offline.
C13_ReaperLastLeavesOffline ==
    [][\A a \in Names :
        (Heartbeat(a) /\ Stale(workers[agentWorkerID[a]]))
        => ReapedStatus(agentWorkerID[a])' = "offline"]_vars

\* C13: a Heartbeat of a worker whose last heartbeat has crossed the threshold
\* leaves it online in both orders: committed after the reaper tick it sets
\* offline back to online, and committed before it, it leaves a row the reaper
\* tick does not match.
C13_OnlineInBothOrders ==
    [][\A a \in Names :
        (/\ Heartbeat(a)
         /\ \/ Stale(workers[agentWorkerID[a]])
            \/ workers[agentWorkerID[a]].status = "offline")
        => /\ workers'[agentWorkerID[a]].status = "online"
           /\ ReapedStatus(agentWorkerID[a])' = "online"]_vars

\* an online worker past the threshold whose agent can still heartbeat: the
\* state in which the Heartbeat and the reaper tick race
C13_Crossed ==
    \E a \in Names :
        /\ agentWorkerID[a] # NoWorker
        /\ Stale(workers[agentWorkerID[a]])

\* C14: a Heartbeat leaves a draining worker draining and a worker in any
\* other status online.
C14_HeartbeatKeepsDraining ==
    [][\A a \in Names :
        Heartbeat(a)
        => workers'[agentWorkerID[a]].status =
              IF workers[agentWorkerID[a]].status = "draining"
              THEN "draining" ELSE "online"]_vars

\* a draining worker with a heartbeat at the current time, after time 0
C14_DrainingHeartbeat ==
    \E a \in Names :
        /\ agentWorkerID[a] # NoWorker
        /\ workers[agentWorkerID[a]].status = "draining"
        /\ workers[agentWorkerID[a]].last_heartbeat = now
        /\ now > 0

\* C15: a scheduler's build update and its increment for a worker that is not
\* online when they run change nothing: the build is not set to running on
\* that worker and the worker's current_builds is not incremented.
C15_NoAssignmentToNonOnline ==
    [][\A s \in SchedIds :
        /\ (updateBuild(s) /\ workers[schedWorker[s]].status # "online")
           => builds' = builds
        /\ (updateWorker(s) /\ workers[schedWorker[s]].status # "online")
           => workers' = workers]_vars

\* C16: the builds running on a worker of max_concurrent_builds = 1 are never
\* more than one.
C16_OneRunningAtATime ==
    \A w \in WorkerIds :
        (workers[w].status # "absent" /\ workers[w].max_concurrent_builds = 1)
        => Cardinality(RunningOn(w)) <= 1

\* C17: every running build has a worker_id and a started_at.
C17_RunningHasWorkerAndStart ==
    \A b \in BuildIds :
        builds[b].status = "running"
        => builds[b].worker_id # NoWorker /\ builds[b].started_at # NULL

\* C18: every build in a terminal status has a completed_at and, when it has a
\* started_at too, a duration_seconds of completed_at minus started_at.
C18_TerminalHasCompletion ==
    \A b \in BuildIds :
        builds[b].status \in TerminalStatuses
        => /\ builds[b].completed_at # NULL
           /\ builds[b].started_at # NULL
              => builds[b].duration_seconds =
                    SecondsPerMinute * MinutesPerTick
                       * (builds[b].completed_at - builds[b].started_at)

\* C19: a build running on a worker the reaper has marked offline does not
\* stay running forever (it is to become timeout) unless the worker leaves
\* offline, that is, heartbeats again.
C19_OrphanedBuildTimesOut ==
    \A b \in BuildIds :
        (/\ builds[b].status = "running"
         /\ builds[b].worker_id # NoWorker
         /\ workers[builds[b].worker_id].status = "offline")
        ~> (\/ builds[b].status # "running"
            \/ workers[builds[b].worker_id].status # "offline")

\* the executeBuild goroutines of an agent that have not returned
Executing(a) == {k \in Slots : tasks[a][k].pc # "idle"}

\* C20: an agent never has more than MaxConcurrent builds executing.
C20_AtMostMaxConcurrent ==
    \A a \in Names : Cardinality(Executing(a)) <= MaxConcurrent(a)

\* C21: every build an agent executes eventually has a terminal status at the
\* API, also when a status report of the agent is lost on the way.
C21_FinishedBuildRecorded ==
    \A b \in BuildIds :
        (\E a \in Names, k \in Slots :
            tasks[a][k].pc = "execute" /\ tasks[a][k].build = b)
        ~> (builds[b].status \in TerminalStatuses)

\* the builds FetchAssigned is to return for worker w
QueuedFor(w) == {b \in BuildIds : builds[b].status = "queued" /\ builds[b].worker_id = w}

C23_AssignmentMatchesLabels ==
    [][\A s \in SchedIds :
        (updateBuild(s) /\ builds' # builds)
        => worker_labels(Head(schedRows[s]))
              \subseteq Labels(workers[schedWorker[s]].name)]_vars

\* C24: no step of a scheduler changes the worker_id of a queued build that has
\* one: the scheduler starts it on that worker or leaves it as it is.
C24_PreAssignedKeepsWorker ==
    [][\A s \in SchedIds, b \in BuildIds :
        (/\ updateBuild(s)
         /\ builds[b].status = "queued"
         /\ builds[b].worker_id # NoWorker)
        => builds'[b].worker_id = builds[b].worker_id]_vars

\* C25: a Heartbeat of a worker in maintenance leaves it in maintenance, and so
\* outside the workers a scheduler's worker SELECT returns.
C25_MaintenanceSurvivesHeartbeat ==
    [][\A a \in Names :
        (Heartbeat(a) /\ workers[agentWorkerID[a]].status = "maintenance")
        => /\ workers'[agentWorkerID[a]].status = "maintenance"
           /\ agentWorkerID[a] \notin AvailableWorkers']_vars

\* worker w has a last heartbeat more than the threshold old
PastThreshold(w) ==
    /\ workers[w].last_heartbeat # NULL
    /\ HeartbeatAge(workers[w]) > ReapThreshold

\* C26: a draining worker whose last heartbeat is more than the threshold old
\* is set offline by the reaper, unless it heartbeats again first.
C26_DrainedWorkerReaped ==
    \A w \in WorkerIds :
        (workers[w].status = "draining" /\ PastThreshold(w))
        ~> (workers[w].status = "offline" \/ ~PastThreshold(w))

\* C27: the answer of GetWorkerBuilds to an agent's checkForBuilds (taken by
\* a runner with a.currentBuilds below its limit) is the builds with the
\* worker's id and status queued, oldest first, ten of them at most, and the
\* request changes no build row and no worker row.
C27_FetchReturnsAssigned ==
    [][\A a \in Names :
        /\ (pollLoop(a) /\ currentBuilds[a] < MaxConcurrent(a))
           => /\ checking'[a]["poll"] =
                    Limit(OrderedByQueuedAt(QueuedFor(agentWorkerID[a])), FetchLimit)
              /\ builds' = builds /\ workers' = workers
        /\ (heartbeatPoll(a) /\ currentBuilds[a] < MaxConcurrent(a))
           => /\ checking'[a]["heartbeat"] =
                    Limit(OrderedByQueuedAt(QueuedFor(agentWorkerID[a])), FetchLimit)
              /\ builds' = builds /\ workers' = workers]_vars

C29_AssignmentAllOrNothing ==
    [][\A s \in SchedIds :
        (updateBuildFails(s) \/ updateWorkerFails(s))
        => ~(schedPc[s] = "increment" /\ schedMatched[s])]_vars

\* the workers that are online with current_builds below max_concurrent_builds
Eligible ==
    {w \in WorkerIds : /\ workers[w].status = "online"
                       /\ workers[w].current_builds < workers[w].max_concurrent_builds}

\* C30: the worker a scheduler's worker SELECT returns is eligible, no eligible
\* worker has a smaller current_builds, and no eligible worker with the same
\* current_builds has an older last_heartbeat (among those that have one).
C30_LeastLoadedOldestFirst ==
    [][\A s \in SchedIds :
        (selectWorker(s) /\ schedPc'[s] = "update")
        => /\ schedWorker'[s] \in Eligible
           /\ \A v \in Eligible :
                 /\ workers[schedWorker'[s]].current_builds <= workers[v].current_builds
                 /\ (/\ workers[v].current_builds = workers[schedWorker'[s]].current_builds
                     /\ workers[v].last_heartbeat # NULL
                     /\ workers[schedWorker'[s]].last_heartbeat # NULL)
                    => workers[schedWorker'[s]].last_heartbeat
                          <= workers[v].last_heartbeat]_vars

C33_OnlyQueuedIsAssigned ==
    [][\A s \in SchedIds :
        /\ (schedulePendingBuilds(s) \/ selectWorker(s) \/ updateWorker(s))
           => builds' = builds
        /\ updateBuild(s)
           => /\ \A c \in BuildIds \ {Head(schedRows[s])} : builds'[c] = builds[c]
              /\ builds[Head(schedRows[s])].status # "queued" => builds' = builds]_vars

\* a scheduler whose build update found its build cancelled since the SELECT
C33_CancelledBeforeUpdate ==
    \E s \in SchedIds :
        /\ schedPc[s] = "increment"
        /\ ~schedMatched[s]
        /\ builds[Head(schedRows[s])].status = "cancelled"
        /\ builds[Head(schedRows[s])].worker_id = NoWorker

\* C34: an agent never has two executions of one build under way.
C34_ExecutedAtMostOnce ==
    \A a \in Names : \A k1, k2 \in Executing(a) :
        k1 # k2 => tasks[a][k1].build # tasks[a][k2].build

\* C35: an agent's currentBuilds is the number of its executeBuild runs that
\* were started and have not returned, and is never negative.
C35_CounterIsInFlight ==
    \A a \in Names :
        /\ currentBuilds[a] >= 0
        /\ currentBuilds[a] = Cardinality(Executing(a))

C38_CancelTerminalConflict ==
    [][\A b \in BuildIds :
        (CancelBuild(b) /\ builds[b].status \in TerminalStatuses)
        => /\ builds' = builds
           /\ workers' = workers
           /\ CancelBuildCode(b) = 409]_vars

\* C39: a Register without a name is answered 400 and changes no worker row;
\* a Register with max_concurrent_builds <= 0 stores the default of 2, and
\* every row a Register writes has max_concurrent_builds >= 1.
C39_RegisterInputChecked ==
    [][/\ \A m \in RegisterMaxes :
             RegisterWorker(NoName, m)
             => RegisterWorkerCode(NoName) = 400 /\ workers' = workers
       /\ \A n \in Names, m \in RegisterMaxes :
             RegisterWorker(n, m)
             => \A w \in RowsNamed(n)' :
                   /\ m <= 0 => workers'[w].max_concurrent_builds = 2
                   /\ workers'[w].max_concurrent_builds >= 1
       /\ \A n \in Names :
             AgentRegister(n)
             => \A w \in RowsNamed(n)' : workers'[w].max_concurrent_builds >= 1]_vars

\* a row last written by a Register of another client that gave no positive
\* max_concurrent_builds, after the reaper had marked the worker
C39_DefaultSubstituted ==
    \E w \in WorkerIds :
        /\ workers[w].status = "online"
        /\ workers[w].health_status = "unhealthy"
        /\ workers[w].max_concurrent_builds = DefaultMaxConcurrent
        /\ MaxConcurrent(workers[w].name) # DefaultMaxConcurrent
        /\ clientCalls = 1

\* C40: a failed statement of assignBuildToWorker ends the attempt on one
\* build only: the tick goes on to the next build of its batch if there is
\* one, and otherwise ends, after which the loop ticks again.
C40_FailureSkipsOneBuild ==
    [][\A s \in SchedIds :
        (selectWorkerFails(s) \/ updateBuildFails(s) \/ updateWorkerFails(s))
        => /\ schedRows'[s] = Tail(schedRows[s])
           /\ schedPc'[s] = IF schedRows'[s] # <<>> THEN "select" ELSE "idle"]_vars

\* a tick that goes on to its second build after the counter update for its
\* first build failed: the build runs on a worker whose counter is still 0
C40_SecondAfterFailure ==
    \E s \in SchedIds, w \in WorkerIds :
        /\ schedPc[s] = "select"
        /\ schedRows[s] = <<2>>
        /\ builds[1].status = "running"
        /\ builds[1].worker_id = w
        /\ workers[w].last_heartbeat = NULL
        /\ workers[w].current_builds = 0

====
